---- MODULE Spec2Model ----
(***************************************************************************)
(* kercat: the session engine (src/src/session.rs) with the Connection it  *)
(* drives (src/src/connection.rs).  start_session iterates the candidate   *)
(* addresses, one network_task per successful Connection, and a single     *)
(* input_task feeds an unbounded channel.  The candidate addresses come    *)
(* from parse_args (src/src/args.rs): parse_port_ranges expands the port   *)
(* text and parse_addresses pairs the host with every port.                *)
(***************************************************************************)
EXTENDS Naturals, Integers, Sequences, FiniteSets, TLC

\* ------------------------------------------------------------ bounds
MaxAddr == 3        \* longest candidate list explored
MaxReads == 2       \* stdin reads of input_task explored
MaxBuf == 3         \* largest configured input_buffer_size explored
MaxTokens == 2      \* most comma-separated tokens in a port text explored
MaxConns == 3       \* peers that connect to start_server
PeerBytes == 2      \* bytes every peer of start_server sends

\* ------------------------------------------------- program constants
NL == 10            \* b'\n', the framing delimiter of receive_data
InputVecLen == 1024 \* vec![0u8; 1024], the stdin buffer of input_task
U16Max == 65535     \* u16::MAX, the largest value parse::<u16>() accepts

VARIABLES
    listen,             \* config.listen
    ignore_eof,         \* config.ignore_eof
    ignore_dns,         \* config.ignore_dns
    input_buffer_size,  \* config.input_buffer_size
    output_buffer_size, \* config.output_buffer_size
    stdin_avail,        \* bytes stdin holds ready at each read before its end
    logging,            \* configure_logger: TRUE with --log FILE, else LevelFilter::Off
    peer_silent,        \* listen mode: no peer ever connects to the listener
    addresses,          \* config.addresses
    host,               \* parse_args: the host text
    addr_type,          \* parse_args: "IP" | "IPv4" | "IPv6"
    port_tokens,        \* the tokens the port text was written from
    port_str,           \* parse_args: the port text, one character per element
    apc,                \* parse_args: "ports" | "addresses" | "done" | "panic"
    tok_i,              \* parse_port_ranges: position of its for loop
    ports,              \* parse_port_ranges: the Vec<u16> it builds
    args_result,        \* parse_args: "none" | "Ok" | a panic message
    spc,                \* start_session: "loop" | "connect" | "done"
    idx,                \* start_session: position of the for loop in addresses
    network_handle,     \* start_session: 0 = None, i = Some(handle of task i)
    result,             \* start_session: "none" | "Ok" | "Err"
    attempts,           \* Connection::from_config calls made, in order
    ipc,                \* input_task: "run" | "ok" | "err"
    stdin_log,          \* bytes_read of every stdin read of input_task
    chan,               \* the unbounded channel input_sender -> input_receiver
    tstate,             \* network_task i: "none" | "run" | "ok" | "err"
    terr,               \* network_task i: the error it returned, until it is joined
    conn,               \* Connection i: "none" | "open" | "shutdown" | "dropped"
    wire,               \* bytes the peer of Connection i sends, still unread
    total_data,         \* receive_data on Connection i: bytes accumulated
    bytes_read,         \* receive_data on Connection i: bytes_read of its last read
    discarded,          \* receive_data on Connection i: bytes dropped by its Err return
    printed,            \* network_task i: data receive_data returned, as printed
    last_send,          \* network_task i: outcome of its last send_data call
    errlog,             \* the error!() call sites that have written to the log
    srv_pc,             \* start_server: "idle" | "bind" | "accept" | "serve" | "done"
    srv_result,         \* start_server: "none" | "Err"
    srv_cur,            \* start_server: the stream being served, 0 = none
    srv_arrived,        \* peers in the listener's queue and before, in arrival order
    srv_naccepted,      \* how many of srv_arrived incoming.next() has handed out
    srv_stream,         \* server side socket of peer c: "none" | "open" | "dropped"
    srv_printed,        \* bytes of peer c start_server has read and printed
    peer_state,         \* peer c: "new" | "connected" | "closed"
    peer_unread,        \* bytes peer c has sent that start_server has not read
    lk_pc,              \* network_task, lock by lock: where its loop stands
    recv_fut,           \* the receive future of the current select!
    conn_lock,          \* holder of the Mutex<Connection>: "free" | "recv" | "send"
    stream_lock,        \* holder of the Mutex<TcpStream>: "free" | "recv" | "send"
    lk_chan,            \* chunks waiting in the channel
    lk_arrived,         \* chunks input_task has enqueued so far
    lk_eof,             \* the Sender is dropped: input_task has returned
    lk_wire,            \* frames the peer has sent that are not read yet
    lk_dropped,         \* what the receive future last dropped by select! had reached
    cl_pc,              \* start_client: "idle" | "connect" | "join" | "failed" | "returned"
    rcv_pc,             \* receive thread: "none" | "lock" | "read" | "done"
    inp_pc,             \* input thread: "none" | "check" | "read_line" | "done"
    snd_pc,             \* send thread: "none" | "lock" | "recv" | "done"
    cl_lock,            \* holder of the Mutex<TcpStream>: "free" | "recv" | "send"
    cl_queue,           \* lines waiting in the mpsc channel
    cl_typed,           \* lines read from stdin so far
    cl_unread,          \* bytes the server has sent that are not read yet
    cl_srv_sent,        \* bytes the server has sent so far
    cl_srv_closed,      \* the server has closed the connection
    is_server_closed    \* the AtomicBool of start_client

argvars == <<host, addr_type, port_tokens, port_str, apc, tok_i, ports, args_result>>
flagvars == <<listen, ignore_eof, ignore_dns, input_buffer_size, output_buffer_size,
             stdin_avail, logging, peer_silent>>
servervars == <<srv_pc, srv_result, srv_cur, srv_arrived, srv_naccepted, srv_stream,
               srv_printed, peer_state, peer_unread>>
\* What a session leaves alone: its configuration, and the programs that are
\* not the session.
lockvars == <<lk_pc, recv_fut, conn_lock, stream_lock, lk_chan, lk_arrived, lk_eof,
             lk_wire, lk_dropped>>
clientvars == <<cl_pc, rcv_pc, inp_pc, snd_pc, cl_lock, cl_queue, cl_typed, cl_unread,
               cl_srv_sent, cl_srv_closed, is_server_closed>>
othervars == <<servervars, lockvars, clientvars>>
cfgvars == <<flagvars, addresses, argvars, othervars>>
sessvars == <<spc, idx, network_handle, result, attempts>>
inputvars == <<ipc, stdin_log, chan>>
netvars == <<tstate, terr, conn, wire, total_data, bytes_read, discarded, printed,
            last_send>>
vars == <<cfgvars, sessvars, inputvars, netvars, errlog>>

Tasks == 1..MaxAddr
Conns == 1..MaxConns

\* ------------------------------------------------------------ helpers
Min(a, b) == IF a <= b THEN a ELSE b

\* total_data.iter().position(|&b| b == b'\n'): 1-based, 0 for None
Position(s) ==
    IF \E k \in 1..Len(s) : s[k] = NL
    THEN CHOOSE k \in 1..Len(s) : s[k] = NL /\ \A j \in 1..(k - 1) : s[j] # NL
    ELSE 0

\* The i-th candidate of the list: parse_addresses pairs the one host with
\* every port.
AddrAt(i) == [ip |-> host, port |-> 8000 + i]

IsUnspecified(a) == a.ip = "0.0.0.0"

\* What a peer sends unless it closes first: b"hello\n" then b"world\n",
\* written with one byte for each word.
Hello == <<1, NL>>
World == <<2, NL>>
PeerStream == Hello \o World

\* A Connection that outlives its task (a leaked Arc).
KeepConnection(c) == c

\* Connection dropped with its task: the Arc<Mutex<Connection>> is owned by
\* the network_task future alone.
DropConnection(c) == "dropped"

\* A handle dropped without being awaited.
HandleNotAwaited(h) == TRUE

\* handle.await: the JoinHandle resolves once the task has returned.
HandleReady(h) == tstate[h] \in {"ok", "err"}

\* ChannelClosed: the only Sender lives in input_task and is dropped with it.
ChannelClosed == ipc # "run"

\* error!(..) at call site e: written unless the logger is off.
Log(e) == IF logging THEN errlog \cup {e} ELSE errlog

\* The process lives until start_session returns to main.
Running == spc # "done"

\* ------------------------------------------------------------ parse_args
\* Text is a sequence of one-character strings.
Digits == <<"0", "1", "2", "3", "4", "5", "6", "7", "8", "9">>
DigitChars == {Digits[k] : k \in 1..10}
DigitVal(c) == (CHOOSE k \in 1..10 : Digits[k] = c) - 1

\* format!("{}", n) of an unsigned number.
RECURSIVE ToDecimal(_)
ToDecimal(n) ==
    IF n < 10 THEN <<Digits[n + 1]>>
    ELSE ToDecimal(n \div 10) \o <<Digits[(n % 10) + 1]>>

Contains(s, c) == \E k \in 1..Len(s) : s[k] = c

\* str::split(sep): the pieces between the separators, empty ones included.
RECURSIVE Split(_, _)
Split(s, sep) ==
    IF Contains(s, sep)
    THEN LET k == CHOOSE k \in 1..Len(s) :
                      s[k] = sep /\ \A j \in 1..(k - 1) : s[j] # sep
         IN <<SubSeq(s, 1, k - 1)>> \o Split(SubSeq(s, k + 1, Len(s)), sep)
    ELSE <<s>>

RECURSIVE DigitsValue(_)
DigitsValue(s) ==
    IF s = <<>> THEN 0
    ELSE DigitsValue(SubSeq(s, 1, Len(s) - 1)) * 10 + DigitVal(s[Len(s)])

\* str::parse::<u16>(): an optional '+', then one or more decimal digits whose
\* value fits u16; anything else is Err.
ParseU16(s) ==
    LET body == IF s # <<>> /\ s[1] = "+" THEN Tail(s) ELSE s
    IN  IF body = <<>> \/ \E k \in 1..Len(body) : body[k] \notin DigitChars
        THEN [ok |-> FALSE, val |-> 0]
        ELSE IF DigitsValue(body) > U16Max
             THEN [ok |-> FALSE, val |-> 0]
             ELSE [ok |-> TRUE, val |-> DigitsValue(body)]

\* A half-open range start..end.
RangeExclusive(start, end) == [k \in 1..(end - start) |-> start + k - 1]

\* for port in start..=end { ports.push(port) }
RangeInclusive(start, end) == [k \in 1..(end - start + 1) |-> start + k - 1]

\* The body of the for loop of parse_port_ranges for one token: ok = FALSE
\* where the code prints "Invalid ..." and continues, else the ports it pushes.
ParseToken(token) ==
    LET invalid == [ok |-> FALSE, ports |-> <<>>] IN
    IF Contains(token, "-")
    THEN LET range == Split(token, "-") IN
         IF Len(range) # 2 THEN invalid
         ELSE LET start == ParseU16(range[1])
                  end == ParseU16(range[2])
              IN  IF ~start.ok THEN invalid
                  ELSE IF ~end.ok THEN invalid
                  ELSE IF start.val > end.val THEN invalid
                  ELSE [ok |-> TRUE, ports |-> RangeInclusive(start.val, end.val)]
    ELSE LET port == ParseU16(token) IN
         IF ~port.ok THEN invalid ELSE [ok |-> TRUE, ports |-> <<port.val>>]

\* A loop that gives up at the first invalid token (break): n tokens in all.
BreakOnInvalid(i, n) == n + 1

\* continue: the loop goes on with the token after the invalid one.
ContinueAfterInvalid(i, n) == i + 1

\* One iteration of the for loop of parse_port_ranges.
PortToken ==
    /\ apc = "ports"
    /\ LET tokens == Split(port_str, ",")
           parsed == ParseToken(tokens[tok_i])
       IN  /\ tok_i <= Len(tokens)
           /\ ports' = ports \o parsed.ports
           /\ tok_i' = IF parsed.ok THEN tok_i + 1
                       ELSE ContinueAfterInvalid(tok_i, Len(tokens))
           /\ apc' = IF tok_i' > Len(tokens) THEN "addresses" ELSE "ports"
    /\ UNCHANGED <<host, addr_type, port_tokens, port_str, args_result, addresses,
                   flagvars, sessvars, inputvars, netvars, errlog,
                   othervars>>

\* format!("{}:{}", host, port).parse::<SocketAddr>(): "V4" for a dotted quad,
\* "V6" for a bracketed IPv6 literal, "Err" for any other host text.
ParseSocketAddr(h, port) ==
    CASE h \in {"127.0.0.1", "10.0.0.1", "0.0.0.0"} -> "V4"
      [] h = "[::1]" -> "V6"
      [] OTHER -> "Err"

\* What the match on addr_type makes of one parsed address: "push" or the panic.
AddressOutcome(h, port) ==
    LET family == ParseSocketAddr(h, port) IN
    IF family = "Err" THEN "panic: unwrap on Err"
    ELSE IF addr_type = "IPv4" /\ family # "V4" THEN "panic: Unexpected IPv4 address"
    ELSE IF addr_type = "IPv6" /\ family # "V6" THEN "panic: Unexpected IPv6 address"
    ELSE "push"

\* The IP of the SocketAddr parsed from a literal host text.
HostIp(h) == IF h = "[::1]" THEN "::1" ELSE h

\* One iteration of the for loop of parse_addresses that pushes an address.
AddrPush ==
    /\ apc = "addresses"
    /\ Len(addresses) < Len(ports)
    /\ LET port == ports[Len(addresses) + 1] IN
       /\ AddressOutcome(host, port) = "push"
       /\ addresses' = Append(addresses, [ip |-> HostIp(host), port |-> port])
    /\ UNCHANGED <<argvars, flagvars, sessvars, inputvars, netvars, errlog,
                   othervars>>

\* One iteration of the for loop of parse_addresses that panics.
AddrPanic ==
    /\ apc = "addresses"
    /\ Len(addresses) < Len(ports)
    /\ LET port == ports[Len(addresses) + 1] IN
       /\ AddressOutcome(host, port) # "push"
       /\ args_result' = AddressOutcome(host, port)
    /\ apc' = "panic"
    /\ UNCHANGED <<host, addr_type, port_tokens, port_str, tok_i, ports, addresses,
                   flagvars, sessvars, inputvars, netvars, errlog,
                   othervars>>

\* parse_addresses returns its Vec and parse_args returns Ok(config).
ArgsReturn ==
    /\ apc = "addresses"
    /\ Len(addresses) = Len(ports)
    /\ apc' = "done"
    /\ args_result' = "Ok"
    /\ UNCHANGED <<host, addr_type, port_tokens, port_str, tok_i, ports, addresses,
                   flagvars, sessvars, inputvars, netvars, errlog,
                   othervars>>

\* ------------------------------------------------------------ port texts
\* A token of a port text as its writer means it: a single number, a range
\* a-b, or other text.
Single(a) == [kind |-> "single", a |-> a, b |-> a, chars |-> <<>>]
Range(a, b) == [kind |-> "range", a |-> a, b |-> b, chars |-> <<>>]
Text(chars) == [kind |-> "text", a |-> 0, b |-> 0, chars |-> chars]

RenderToken(t) ==
    CASE t.kind = "single" -> ToDecimal(t.a)
      [] t.kind = "range" -> ToDecimal(t.a) \o <<"-">> \o ToDecimal(t.b)
      [] OTHER -> t.chars

RECURSIVE RenderPorts(_)
RenderPorts(ts) ==
    IF Len(ts) = 0 THEN <<>>
    ELSE IF Len(ts) = 1 THEN RenderToken(ts[1])
    ELSE RenderToken(ts[1]) \o <<",">> \o RenderPorts(Tail(ts))

TokenPool ==
    { Single(80), Single(443), Range(80, 82), Range(5, 5),
      Range(U16Max - 1, U16Max),
      Range(90, 80), Single(U16Max + 1), Range(80, U16Max + 1),
      Text(<<"a", "b", "c">>), Text(<<>>), Text(<<"1", "-", "2", "-", "3">>),
      Text(<<"8", "0", "-">>) }

PortTexts == UNION {[1..n -> TokenPool] : n \in 1..MaxTokens}

ArgHosts == {"127.0.0.1", "[::1]", "::1", "example.com"}

\* ------------------------------------------------------------ Init
\* The hosts of the sessions explored: an ordinary literal and the
\* unspecified address.
SessionHosts == {"10.0.0.1", "0.0.0.0"}

\* parse_args has returned Ok(config) for the port text "8001-<8000+n>".
ArgsDone(n) ==
    /\ addr_type = "IP"
    /\ port_tokens = <<Range(8001, 8000 + n)>>
    /\ port_str = RenderPorts(port_tokens)
    /\ apc = "done"
    /\ tok_i = 2
    /\ ports = [i \in 1..n |-> 8000 + i]
    /\ addresses = [i \in 1..n |-> AddrAt(i)]
    /\ args_result = "Ok"

\* start_server is not running.
ServerIdle ==
    /\ srv_pc = "idle"
    /\ srv_result = "none"
    /\ srv_cur = 0
    /\ srv_arrived = <<>>
    /\ srv_naccepted = 0
    /\ srv_stream = [c \in Conns |-> "none"]
    /\ srv_printed = [c \in Conns |-> 0]
    /\ peer_state = [c \in Conns |-> "new"]
    /\ peer_unread = [c \in Conns |-> 0]

\* No network_task is followed lock by lock.
LocksIdle ==
    /\ lk_pc = "idle"
    /\ recv_fut = "none"
    /\ conn_lock = "free"
    /\ stream_lock = "free"
    /\ lk_chan = 0
    /\ lk_arrived = 0
    /\ lk_eof = FALSE
    /\ lk_wire = 0
    /\ lk_dropped = "none"

\* start_client is not running.
ClientIdle ==
    /\ cl_pc = "idle"
    /\ rcv_pc = "none"
    /\ inp_pc = "none"
    /\ snd_pc = "none"
    /\ cl_lock = "free"
    /\ cl_queue = 0
    /\ cl_typed = 0
    /\ cl_unread = 0
    /\ cl_srv_sent = 0
    /\ cl_srv_closed = FALSE
    /\ is_server_closed = FALSE

\* start_session is entered: nothing spawned, nothing read.
SessionStart ==
    /\ ServerIdle
    /\ LocksIdle
    /\ ClientIdle
    /\ spc = "loop"
    /\ idx = 1
    /\ network_handle = 0
    /\ result = "none"
    /\ attempts = <<>>
    /\ ipc = "run"
    /\ stdin_log = <<>>
    /\ chan = <<>>
    /\ tstate = [i \in Tasks |-> "none"]
    /\ terr = [i \in Tasks |-> "none"]
    /\ conn = [i \in Tasks |-> "none"]
    /\ wire = [i \in Tasks |-> <<>>]
    /\ total_data = [i \in Tasks |-> <<>>]
    /\ bytes_read = [i \in Tasks |-> -1]
    /\ discarded = [i \in Tasks |-> 0]
    /\ printed = [i \in Tasks |-> <<>>]
    /\ last_send = [i \in Tasks |-> "none"]
    /\ errlog = {}

\* parse_args is entered with a host, a family restriction and a port text.
InitArgs ==
    /\ listen = FALSE
    /\ ignore_eof = FALSE
    /\ ignore_dns = FALSE
    /\ input_buffer_size = MaxBuf
    /\ output_buffer_size = InputVecLen
    /\ stdin_avail = 1
    /\ logging = FALSE
    /\ peer_silent = FALSE
    /\ host \in ArgHosts
    /\ addr_type \in {"IP", "IPv4", "IPv6"}
    /\ port_tokens \in PortTexts
    /\ port_str = RenderPorts(port_tokens)
    /\ apc = "ports"
    /\ tok_i = 1
    /\ ports = <<>>
    /\ addresses = <<>>
    /\ args_result = "none"
    /\ SessionStart

\* config.ignore_dns is read by from_config alone, and there it matters for
\* the unspecified address only: the other literals are explored without it.
Init ==
    /\ listen \in BOOLEAN
    /\ ignore_eof \in BOOLEAN
    /\ host \in SessionHosts
    /\ ignore_dns \in (IF host = "0.0.0.0" THEN BOOLEAN ELSE {FALSE})
    /\ input_buffer_size \in {0, MaxBuf}
    /\ output_buffer_size = InputVecLen
    /\ stdin_avail = 1
    /\ logging = FALSE
    /\ peer_silent = FALSE
    /\ \E n \in 0..MaxAddr : ArgsDone(n)
    /\ SessionStart

\* Sessions in connect mode with at most one candidate, over the configured
\* output buffer sizes and over short and buffer-filling stdin reads.
OutputSizes == {512, InputVecLen, 2048}

InitInput ==
    /\ listen = FALSE
    /\ ignore_eof \in BOOLEAN
    /\ host = "10.0.0.1"
    /\ ignore_dns = FALSE
    /\ input_buffer_size = MaxBuf
    /\ output_buffer_size \in OutputSizes
    /\ stdin_avail \in {1, InputVecLen}
    /\ logging = FALSE
    /\ peer_silent = FALSE
    /\ \E n \in 0..1 : ArgsDone(n)
    /\ SessionStart

\* ------------------------------------------------------------ input_task
\* Sizes a stdin read returns besides 0.
ChunkLens == {stdin_avail}

\* input.truncate(bytes_read) on the buffer filled by the k-th read.
Truncate(k, n) == [data |-> k, len |-> Min(n, InputVecLen)]

\* An EOF check that forgets config.ignore_eof.
EofAlwaysBreaks == FALSE

\* What input_task does with bytes_read = 0: TRUE = continue, FALSE = break.
EofContinues == ignore_eof

\* A channel::bounded(1): a send waits while a chunk is still queued.
ChannelBounded == Len(chan) < 1

\* channel::unbounded(): input_sender.send(..).await never waits for room.
ChannelHasRoom == TRUE

\* One iteration of the loop of input_task whose flush and read succeed.
InputRead(n) ==
    /\ Running
    /\ ipc = "run"
    /\ Len(stdin_log) < MaxReads
    /\ n # 0 => ChannelHasRoom
    /\ stdin_log' = Append(stdin_log, n)
    /\ IF n = 0
       THEN /\ ipc' = IF EofContinues THEN "run" ELSE "ok"
            /\ chan' = chan
       ELSE /\ ipc' = "run"
            /\ chan' = Append(chan, Truncate(Len(stdin_log) + 1, n))
    /\ UNCHANGED <<cfgvars, sessvars, netvars, errlog>>

\* io::stdout().flush().await? or io::stdin().read(..).await? fails.
InputFail ==
    /\ Running
    /\ ipc = "run"
    /\ ipc' = "err"
    /\ UNCHANGED <<stdin_log, chan, cfgvars, sessvars, netvars, errlog>>

\* ------------------------------------------------------------ Connection
\* Connection::resolve_hostname: a lookup happens for the unspecified address.
NeedsLookup(a) == ~ignore_dns /\ IsUnspecified(a)

\* Address after resolve_hostname succeeded: the first resolved IP, same port.
Resolved(a) == IF NeedsLookup(a) THEN [ip |-> "resolved", port |-> a.port] ELSE a

\* Outcomes of Connection::from_config for address a.
FromConfigOutcomes(a) ==
    (IF NeedsLookup(a) THEN {"resolve_err"} ELSE {})
    \cup (IF listen THEN {"bind_err", "accept_err"} ELSE {"connect_err"})
    \cup {"nodelay_err", "ok"}

\* Connection::listen awaits listener.accept() with no timeout: while no peer
\* connects, from_config returns only if bind fails.
Completes(outcome) ==
    ~(listen /\ peer_silent /\ outcome \in {"accept_err", "nodelay_err", "ok"})

\* Connection::receive_data after a read of n > 0 bytes: Ok(total_data) once
\* total_data holds a delimiter, else keep reading (<<>> stands for "no return").
ReceiveReturn(total) == IF Position(total) # 0 THEN total ELSE <<>>

\* A receive_data that hands back what it accumulated when the peer closes.
ZeroReadReturnsPartial(total) ==
    IF total = <<>>
    THEN [ok |-> FALSE, err |-> "ClientDisconnected", data |-> <<>>]
    ELSE [ok |-> TRUE, err |-> "none", data |-> total]

\* Connection::receive_data on bytes_read = 0.
ZeroReadResult(total) == [ok |-> FALSE, err |-> "ClientDisconnected", data |-> <<>>]

\* ------------------------------------------------------------ network_task
\* The task returns: its future is dropped, and with it the receive future's
\* locals, the Connection and its socket.
EndTask(i, how, e) ==
    /\ tstate' = [tstate EXCEPT ![i] = how]
    /\ terr' = [terr EXCEPT ![i] = e]
    /\ conn' = [conn EXCEPT ![i] = DropConnection(@)]
    /\ wire' = [wire EXCEPT ![i] = <<>>]
    /\ total_data' = [total_data EXCEPT ![i] = <<>>]
    /\ printed' = [printed EXCEPT ![i] = <<>>]
    /\ last_send' = [last_send EXCEPT ![i] = "none"]

\* A select_biased!: the branches are polled in the order written, so the
\* receive branch is taken only when the channel has nothing to give.
SelectBiased(i, branch) ==
    branch = "input" \/ (chan = <<>> /\ ~ChannelClosed)

\* futures::select! polls its branches in pseudo-random order: whichever of
\* the branches is ready may be the one taken.
SelectPolls(i, branch) == TRUE

\* What network_task does when send_data fails: TRUE = return, FALSE = log only.
SendFailureEndsTask == FALSE

\* select! takes the input branch with Ok(input): the pending receive future is
\* dropped with its total_data, then send_data runs.
NetInput(i, sent_ok) ==
    /\ Running
    /\ tstate[i] = "run"
    /\ SelectPolls(i, "input")
    /\ chan # <<>>
    /\ chan' = Tail(chan)
    /\ bytes_read' = [bytes_read EXCEPT ![i] = -1]
    /\ IF ~sent_ok /\ SendFailureEndsTask
       THEN EndTask(i, "err", "IoError(write)")
       ELSE /\ total_data' = [total_data EXCEPT ![i] = <<>>]
            /\ last_send' = [last_send EXCEPT ![i] = IF sent_ok THEN "ok" ELSE "err"]
            /\ UNCHANGED <<tstate, terr, conn, wire, printed>>
    /\ errlog' = IF sent_ok THEN errlog ELSE Log("Error sending data")
    /\ UNCHANGED <<discarded, ipc, stdin_log, cfgvars, sessvars>>

\* A recv that reports the closed channel while chunks are still queued.
RecvErrOnClose == ChannelClosed

\* input_receiver.recv() gives Err only once the channel is closed and empty:
\* chunks queued before the Sender was dropped are handed out first.
RecvErr == chan = <<>> /\ ChannelClosed

\* select! takes the input branch with Err: the channel is closed and empty.
\* connection.close().await? then return Ok(()).
NetChanClosed(i, close_ok) ==
    /\ Running
    /\ tstate[i] = "run"
    /\ SelectPolls(i, "input")
    /\ RecvErr
    /\ bytes_read' = [bytes_read EXCEPT ![i] = -1]
    /\ IF close_ok THEN EndTask(i, "ok", "none") ELSE EndTask(i, "err", "IoError(shutdown)")
    /\ UNCHANGED <<discarded, inputvars, cfgvars, sessvars, errlog>>

\* The receive branch: stream.read returns n > 0 bytes of what the peer sent.
NetRead(i, n) ==
    /\ Running
    /\ tstate[i] = "run"
    /\ SelectPolls(i, "recv")
    /\ n \in 1..Min(input_buffer_size, Len(wire[i]))
    /\ LET total == total_data[i] \o SubSeq(wire[i], 1, n)
           ret == ReceiveReturn(total)
       IN /\ wire' = [wire EXCEPT ![i] = SubSeq(@, n + 1, Len(@))]
          /\ bytes_read' = [bytes_read EXCEPT ![i] = n]
          /\ IF ret # <<>>
             THEN /\ printed' = [printed EXCEPT ![i] = Append(@, ret)]
                  /\ total_data' = [total_data EXCEPT ![i] = <<>>]
             ELSE /\ printed' = printed
                  /\ total_data' = [total_data EXCEPT ![i] = total]
    /\ UNCHANGED <<tstate, terr, conn, discarded, last_send, inputvars, cfgvars, sessvars,
                   errlog>>

\* The receive branch: stream.read returns 0 (the peer has closed and sends no
\* more, or the buffer has no room), and receive_data returns.
NetReadZero(i) ==
    /\ Running
    /\ tstate[i] = "run"
    /\ SelectPolls(i, "recv")
    /\ bytes_read' = [bytes_read EXCEPT ![i] = 0]
    /\ LET r == ZeroReadResult(total_data[i])
       IN IF r.ok
          THEN /\ printed' = [printed EXCEPT ![i] = Append(@, r.data)]
               /\ total_data' = [total_data EXCEPT ![i] = <<>>]
               /\ UNCHANGED <<tstate, terr, conn, wire, discarded, last_send>>
          ELSE /\ EndTask(i, "err", r.err)
               /\ discarded' = [discarded EXCEPT ![i] = Len(total_data[i])]
    /\ errlog' = IF ZeroReadResult(total_data[i]).ok THEN errlog
                 ELSE Log("Error receiving data")
    /\ UNCHANGED <<inputvars, cfgvars, sessvars>>

\* The receive branch: stream.read fails with an I/O error.
NetReadErr(i) ==
    /\ Running
    /\ tstate[i] = "run"
    /\ SelectPolls(i, "recv")
    /\ bytes_read' = [bytes_read EXCEPT ![i] = -1]
    /\ EndTask(i, "err", "IoError(read)")
    /\ errlog' = Log("Error receiving data")
    /\ UNCHANGED <<discarded, inputvars, cfgvars, sessvars>>

\* ------------------------------------------------------------ start_session
\* handle.await takes the task's output out of the JoinHandle: once it is
\* logged the error value is dropped, and only Ok or Err has been seen.
Join(h) ==
    IF h = 0 \/ ~HandleReady(h)
    THEN UNCHANGED <<terr, bytes_read, discarded>>
    ELSE /\ terr' = [terr EXCEPT ![h] = "none"]
         /\ bytes_read' = [bytes_read EXCEPT ![h] = -1]
         /\ discarded' = [discarded EXCEPT ![h] = 0]

\* A loop that awaits the previous task with `?`.
LoopAwaitQuestionMark(h) == tstate[h] = "err"

\* Both arms of the match on the awaited result only log: neither returns.
LoopAwaitPropagates(h) == FALSE

\* Top of the for loop: network_handle.take(), then handle.await if Some.
SessAwaitPrev ==
    /\ spc = "loop"
    /\ idx <= Len(addresses)
    /\ network_handle # 0 => HandleReady(network_handle)
    /\ network_handle' = 0
    /\ Join(network_handle)
    /\ IF network_handle # 0 /\ LoopAwaitPropagates(network_handle)
       THEN spc' = "done" /\ result' = "Err"
       ELSE spc' = "connect" /\ result' = result
    /\ errlog' = IF network_handle # 0 /\ tstate[network_handle] = "err"
                 THEN Log("Connection failed with error") ELSE errlog
    /\ UNCHANGED <<idx, attempts, tstate, conn, wire, total_data, printed, last_send,
                   cfgvars, inputvars>>

\* Which candidates the loop goes on to after candidate i.
NextIndex(i) == i + 1

\* Connection::from_config(..).await and the match on its result.
SessConnect(outcome) ==
    /\ spc = "connect"
    /\ outcome \in FromConfigOutcomes(addresses[idx])
    /\ Completes(outcome)
    /\ errlog' = IF outcome = "ok" THEN errlog ELSE Log("Failed to initialize connection")
    /\ attempts' = Append(attempts,
            [index |-> idx,
             addr |-> IF outcome = "resolve_err" THEN addresses[idx]
                      ELSE Resolved(addresses[idx]),
             lookup |-> NeedsLookup(addresses[idx]),
             ok |-> outcome = "ok"])
    /\ IF outcome = "ok"
       THEN /\ network_handle' = idx
            /\ tstate' = [tstate EXCEPT ![idx] = "run"]
            /\ conn' = [conn EXCEPT ![idx] = "open"]
            /\ wire' = [wire EXCEPT ![idx] = PeerStream]
       ELSE /\ network_handle' = network_handle
            /\ UNCHANGED <<tstate, conn, wire>>
    /\ idx' = NextIndex(idx)
    /\ spc' = "loop"
    /\ UNCHANGED <<result, terr, total_data, bytes_read, discarded, printed, last_send,
                   cfgvars, inputvars>>

\* A start_session that reports the failure of any of its network tasks.
FinalResultAnyTask(h) == IF \E i \in Tasks : tstate[i] = "err" THEN "Err" ELSE "Ok"

\* The value start_session returns once the loop is over.
FinalResult(h) == IF h # 0 /\ tstate[h] = "err" THEN "Err" ELSE "Ok"

\* After the loop: handle.await? on the last handle, then Ok(()).
SessFinal ==
    /\ spc = "loop"
    /\ idx > Len(addresses)
    /\ network_handle # 0 => HandleReady(network_handle)
    /\ result' = FinalResult(network_handle)
    /\ Join(network_handle)
    /\ spc' = "done"
    /\ UNCHANGED <<idx, network_handle, attempts, tstate, conn, wire, total_data,
                   printed, last_send, cfgvars, inputvars, errlog>>

Next ==
    \/ \E n \in {0} \cup ChunkLens : InputRead(n)
    \/ InputFail
    \/ \E i \in Tasks, b \in BOOLEAN : NetInput(i, b)
    \/ \E i \in Tasks, b \in BOOLEAN : NetChanClosed(i, b)
    \/ \E i \in Tasks, n \in 1..MaxBuf + 1 : NetRead(i, n)
    \/ \E i \in Tasks : NetReadZero(i)
    \/ \E i \in Tasks : NetReadErr(i)
    \/ SessAwaitPrev
    \/ \E o \in {"resolve_err", "bind_err", "accept_err", "connect_err", "nodelay_err", "ok"} :
          SessConnect(o)
    \/ SessFinal

Spec == Init /\ [][Next]_vars

NextArgs ==
    \/ PortToken
    \/ AddrPush
    \/ AddrPanic
    \/ ArgsReturn

\* Sessions in connect mode run with --log FILE: the logger is on.
InitLog ==
    /\ listen = FALSE
    /\ ignore_eof \in BOOLEAN
    /\ host = "10.0.0.1"
    /\ ignore_dns = FALSE
    /\ input_buffer_size = MaxBuf
    /\ output_buffer_size = InputVecLen
    /\ stdin_avail = 1
    /\ logging = TRUE
    /\ peer_silent = FALSE
    /\ \E n \in 0..2 : ArgsDone(n)
    /\ SessionStart

SpecLog == InitLog /\ [][Next]_vars

\* Sessions in either mode whose peers answer or stay silent for good.
InitLive ==
    /\ listen \in BOOLEAN
    /\ ignore_eof = FALSE
    /\ host = "10.0.0.1"
    /\ ignore_dns = FALSE
    /\ input_buffer_size = MaxBuf
    /\ output_buffer_size = InputVecLen
    /\ stdin_avail = 1
    /\ logging = FALSE
    /\ peer_silent \in BOOLEAN
    /\ \E n \in 0..2 : ArgsDone(n)
    /\ SessionStart

\* start_session is polled whenever it can go on, and a peer that is there
\* answers; a failing bind or a refusal is up to the environment.
LiveSpec ==
    /\ InitLive
    /\ [][Next]_vars
    /\ WF_vars(SessAwaitPrev)
    /\ WF_vars(SessConnect("ok"))
    /\ WF_vars(SessFinal)

\* The session over the output buffer sizes and the stdin read sizes.
SpecInput == InitInput /\ [][Next]_vars

\* parse_args alone, from its inputs to Ok(config) or a panic.
SpecArgs == InitArgs /\ [][NextArgs]_vars

\* The sessions explored for fairness: connect mode, no lookups.
FairInit == Init /\ ~listen /\ host = "10.0.0.1"

\* The executor polls a ready network_task, and the shuffled polling order of
\* select! puts the receive branch first again and again: a receive that
\* stays ready is eventually the branch taken.
FairSpec ==
    /\ FairInit
    /\ [][Next]_vars
    /\ \A i \in Tasks : WF_vars(\E n \in 1..(MaxBuf + 1) : NetRead(i, n))

\* ------------------------------------------------------------ start_server
\* start_server is entered; no session runs in this process.
InitServer ==
    /\ listen = TRUE
    /\ ignore_eof = FALSE
    /\ ignore_dns = FALSE
    /\ input_buffer_size = MaxBuf
    /\ output_buffer_size = InputVecLen
    /\ stdin_avail = 1
    /\ logging = FALSE
    /\ peer_silent = FALSE
    /\ host = "0.0.0.0"
    /\ ArgsDone(1)
    /\ spc = "done"
    /\ idx = 1
    /\ network_handle = 0
    /\ result = "none"
    /\ attempts = <<>>
    /\ ipc = "ok"
    /\ stdin_log = <<>>
    /\ chan = <<>>
    /\ tstate = [i \in Tasks |-> "none"]
    /\ terr = [i \in Tasks |-> "none"]
    /\ conn = [i \in Tasks |-> "none"]
    /\ wire = [i \in Tasks |-> <<>>]
    /\ total_data = [i \in Tasks |-> <<>>]
    /\ bytes_read = [i \in Tasks |-> -1]
    /\ discarded = [i \in Tasks |-> 0]
    /\ printed = [i \in Tasks |-> <<>>]
    /\ last_send = [i \in Tasks |-> "none"]
    /\ errlog = {}
    /\ srv_pc = "bind"
    /\ srv_result = "none"
    /\ srv_cur = 0
    /\ srv_arrived = <<>>
    /\ srv_naccepted = 0
    /\ srv_stream = [c \in Conns |-> "none"]
    /\ srv_printed = [c \in Conns |-> 0]
    /\ peer_state = [c \in Conns |-> "new"]
    /\ peer_unread = [c \in Conns |-> 0]
    /\ LocksIdle
    /\ ClientIdle

notserver == <<flagvars, addresses, argvars, sessvars, inputvars, netvars, errlog,
               lockvars, clientvars>>

\* The listener exists from the bind until start_server returns.
Listening == srv_pc \in {"accept", "serve"}

\* A peer connects: it waits in the listener's queue, its bytes on the way.
PeerConnect(c) ==
    /\ Listening
    /\ peer_state[c] = "new"
    /\ peer_state' = [peer_state EXCEPT ![c] = "connected"]
    /\ peer_unread' = [peer_unread EXCEPT ![c] = PeerBytes]
    /\ srv_arrived' = Append(srv_arrived, c)
    /\ UNCHANGED <<srv_pc, srv_result, srv_cur, srv_naccepted, srv_stream, srv_printed,
                   notserver>>

\* A connected peer closes its end.
PeerClose(c) ==
    /\ Listening
    /\ peer_state[c] = "connected"
    /\ peer_state' = [peer_state EXCEPT ![c] = "closed"]
    /\ UNCHANGED <<srv_pc, srv_result, srv_cur, srv_arrived, srv_naccepted, srv_stream,
                   srv_printed, peer_unread, notserver>>

\* TcpListener::bind(..).await?
SrvBind(ok) ==
    /\ srv_pc = "bind"
    /\ srv_pc' = IF ok THEN "accept" ELSE "done"
    /\ srv_result' = IF ok THEN srv_result ELSE "Err"
    /\ UNCHANGED <<srv_cur, srv_arrived, srv_naccepted, srv_stream, srv_printed,
                   peer_state, peer_unread, notserver>>

\* incoming.next().await gives the next queued peer; stream? and peer_addr()?
\* succeed.
SrvAccept ==
    /\ srv_pc = "accept"
    /\ srv_naccepted < Len(srv_arrived)
    /\ srv_naccepted' = srv_naccepted + 1
    /\ srv_cur' = srv_arrived[srv_naccepted + 1]
    /\ srv_stream' = [srv_stream EXCEPT ![srv_arrived[srv_naccepted + 1]] = "open"]
    /\ srv_pc' = "serve"
    /\ UNCHANGED <<srv_result, srv_arrived, srv_printed, peer_state, peer_unread,
                   notserver>>

\* incoming.next().await gives an Err, and stream? returns it.
SrvAcceptErr ==
    /\ srv_pc = "accept"
    /\ srv_pc' = "done"
    /\ srv_result' = "Err"
    /\ UNCHANGED <<srv_cur, srv_arrived, srv_naccepted, srv_stream, srv_printed,
                   peer_state, peer_unread, notserver>>

\* stream.read gives n > 0 bytes, which are printed and flushed.
SrvRead(n) ==
    /\ srv_pc = "serve"
    /\ n \in 1..peer_unread[srv_cur]
    /\ peer_unread' = [peer_unread EXCEPT ![srv_cur] = @ - n]
    /\ srv_printed' = [srv_printed EXCEPT ![srv_cur] = @ + n]
    /\ UNCHANGED <<srv_pc, srv_result, srv_cur, srv_arrived, srv_naccepted, srv_stream,
                   peer_state, notserver>>

\* A server that stops after the first peer has closed.
StopAfterPeer == "done"

\* break: out of the read loop, back to `while let Some(..) = incoming.next()`.
AfterPeerClosed == "accept"

\* stream.read gives 0: the peer has closed and all its bytes are read. The
\* stream is dropped at the end of the iteration.
SrvReadZero ==
    /\ srv_pc = "serve"
    /\ peer_state[srv_cur] = "closed"
    /\ peer_unread[srv_cur] = 0
    /\ srv_stream' = [srv_stream EXCEPT ![srv_cur] = "dropped"]
    /\ srv_cur' = 0
    /\ srv_pc' = AfterPeerClosed
    /\ UNCHANGED <<srv_result, srv_arrived, srv_naccepted, srv_printed, peer_state,
                   peer_unread, notserver>>

\* stream.read, peer_addr or flush fails: `?` returns the error.
SrvIoErr ==
    /\ srv_pc = "serve"
    /\ srv_stream' = [srv_stream EXCEPT ![srv_cur] = "dropped"]
    /\ srv_cur' = 0
    /\ srv_pc' = "done"
    /\ srv_result' = "Err"
    /\ UNCHANGED <<srv_arrived, srv_naccepted, srv_printed, peer_state, peer_unread,
                   notserver>>

NextServer ==
    \/ \E c \in Conns : PeerConnect(c)
    \/ \E c \in Conns : PeerClose(c)
    \/ \E ok \in BOOLEAN : SrvBind(ok)
    \/ SrvAccept
    \/ SrvAcceptErr
    \/ \E n \in 1..PeerBytes : SrvRead(n)
    \/ SrvReadZero
    \/ SrvIoErr

SpecServer == InitServer /\ [][NextServer]_vars

\* ------------------------------------------------------------ network_task, lock by lock
\* One network_task on an open Connection, each lock().await a step of its
\* own.  lk_pc: "select" (in select!), "send_conn" / "close_conn" (at
\* connection.lock().await of the input branch), "send_stream" /
\* "close_stream" (at self.stream.lock().await), "write" / "shutdown" (both
\* guards held), "done" (returned).
InitLocks ==
    /\ listen = FALSE
    /\ ignore_eof = FALSE
    /\ ignore_dns = FALSE
    /\ input_buffer_size = MaxBuf
    /\ output_buffer_size = InputVecLen
    /\ stdin_avail = 1
    /\ logging = FALSE
    /\ peer_silent = FALSE
    /\ host = "10.0.0.1"
    /\ ArgsDone(1)
    /\ spc = "loop"
    /\ idx = 2
    /\ network_handle = 1
    /\ result = "none"
    /\ attempts = <<[index |-> 1, addr |-> AddrAt(1), lookup |-> FALSE, ok |-> TRUE]>>
    /\ ipc = "run"
    /\ stdin_log = <<>>
    /\ chan = <<>>
    /\ tstate = [i \in Tasks |-> IF i = 1 THEN "run" ELSE "none"]
    /\ terr = [i \in Tasks |-> "none"]
    /\ conn = [i \in Tasks |-> IF i = 1 THEN "open" ELSE "none"]
    /\ wire = [i \in Tasks |-> <<>>]
    /\ total_data = [i \in Tasks |-> <<>>]
    /\ bytes_read = [i \in Tasks |-> -1]
    /\ discarded = [i \in Tasks |-> 0]
    /\ printed = [i \in Tasks |-> <<>>]
    /\ last_send = [i \in Tasks |-> "none"]
    /\ errlog = {}
    /\ ServerIdle
    /\ ClientIdle
    /\ lk_pc = "select"
    /\ recv_fut = "none"
    /\ conn_lock = "free"
    /\ stream_lock = "free"
    /\ lk_chan = 0
    /\ lk_arrived = 0
    /\ lk_eof = FALSE
    /\ lk_wire = PeerBytes
    /\ lk_dropped = "none"

notlocks == <<flagvars, addresses, argvars, sessvars, inputvars, netvars, errlog,
              servervars, clientvars>>

\* input_task enqueues a chunk.
LkArrive ==
    /\ lk_pc \notin {"idle", "done"}
    /\ ~lk_eof
    /\ lk_arrived < MaxReads
    /\ lk_arrived' = lk_arrived + 1
    /\ lk_chan' = lk_chan + 1
    /\ UNCHANGED <<lk_pc, recv_fut, conn_lock, stream_lock, lk_eof, lk_wire, lk_dropped,
                   notlocks>>

\* input_task returns: its Sender is dropped.
LkEof ==
    /\ lk_pc \notin {"idle", "done"}
    /\ ~lk_eof
    /\ lk_eof' = TRUE
    /\ UNCHANGED <<lk_pc, recv_fut, conn_lock, stream_lock, lk_chan, lk_arrived, lk_wire,
                   lk_dropped, notlocks>>

\* A new iteration of the loop: select! builds its two futures.
LkSelect ==
    /\ lk_pc = "select"
    /\ recv_fut = "none"
    /\ recv_fut' = "new"
    /\ UNCHANGED <<lk_pc, conn_lock, stream_lock, lk_chan, lk_arrived, lk_eof, lk_wire,
                   lk_dropped, notlocks>>

\* The receive future is polled: connection.lock().await.
LkRecvLockConn ==
    /\ lk_pc = "select"
    /\ recv_fut = "new"
    /\ conn_lock = "free"
    /\ conn_lock' = "recv"
    /\ recv_fut' = "has_conn"
    /\ UNCHANGED <<lk_pc, stream_lock, lk_chan, lk_arrived, lk_eof, lk_wire, lk_dropped,
                   notlocks>>

\* receive_data: self.stream.lock().await, then it waits in stream.read.
LkRecvLockStream ==
    /\ lk_pc = "select"
    /\ recv_fut = "has_conn"
    /\ stream_lock = "free"
    /\ stream_lock' = "recv"
    /\ recv_fut' = "reading"
    /\ UNCHANGED <<lk_pc, conn_lock, lk_chan, lk_arrived, lk_eof, lk_wire, lk_dropped,
                   notlocks>>

\* The locks a future holds are released when it completes or is dropped.
Release(lock, who) == IF lock = who THEN "free" ELSE lock

\* receive_data returns a frame: the receive branch wins, its future and both
\* guards are gone, the frame is printed.
LkRecvFrame ==
    /\ lk_pc = "select"
    /\ recv_fut = "reading"
    /\ lk_wire > 0
    /\ lk_wire' = lk_wire - 1
    /\ recv_fut' = "none"
    /\ conn_lock' = Release(conn_lock, "recv")
    /\ stream_lock' = Release(stream_lock, "recv")
    /\ UNCHANGED <<lk_pc, lk_chan, lk_arrived, lk_eof, lk_dropped, notlocks>>

\* receive_data returns Err: network_task returns it.
LkRecvErr ==
    /\ lk_pc = "select"
    /\ recv_fut = "reading"
    /\ recv_fut' = "none"
    /\ conn_lock' = Release(conn_lock, "recv")
    /\ stream_lock' = Release(stream_lock, "recv")
    /\ lk_pc' = "done"
    /\ UNCHANGED <<lk_chan, lk_arrived, lk_eof, lk_wire, lk_dropped, notlocks>>

\* A select over futures that live across the loop: the loser stays as it is.
KeepLoser(f) == f

\* select! ends with the input branch: the futures of the select! go out of
\* scope before the body of the branch runs, the receive future among them.
DropLoser(f) == "none"

\* The input branch wins with Ok(input) or with Err.
LkInputWins ==
    /\ lk_pc = "select"
    /\ recv_fut # "none"
    /\ lk_chan > 0 \/ lk_eof
    /\ lk_chan' = IF lk_chan > 0 THEN lk_chan - 1 ELSE lk_chan
    /\ lk_pc' = IF lk_chan > 0 THEN "send_conn" ELSE "close_conn"
    /\ recv_fut' = DropLoser(recv_fut)
    /\ lk_dropped' = recv_fut
    /\ conn_lock' = IF recv_fut' = "none" THEN Release(conn_lock, "recv") ELSE conn_lock
    /\ stream_lock' = IF recv_fut' = "none" THEN Release(stream_lock, "recv")
                      ELSE stream_lock
    /\ UNCHANGED <<lk_arrived, lk_eof, lk_wire, notlocks>>

\* connection.lock().await of the input branch.
LkLockConn ==
    /\ lk_pc \in {"send_conn", "close_conn"}
    /\ conn_lock = "free"
    /\ conn_lock' = "send"
    /\ lk_pc' = IF lk_pc = "send_conn" THEN "send_stream" ELSE "close_stream"
    /\ UNCHANGED <<recv_fut, stream_lock, lk_chan, lk_arrived, lk_eof, lk_wire,
                   lk_dropped, notlocks>>

\* self.stream.lock().await of send_data or close.
LkLockStream ==
    /\ lk_pc \in {"send_stream", "close_stream"}
    /\ stream_lock = "free"
    /\ stream_lock' = "send"
    /\ lk_pc' = IF lk_pc = "send_stream" THEN "write" ELSE "shutdown"
    /\ UNCHANGED <<recv_fut, conn_lock, lk_chan, lk_arrived, lk_eof, lk_wire, lk_dropped,
                   notlocks>>

\* write_all and flush end, well or not; both guards are dropped at the end
\* of the match arm and the loop goes round.
LkWrite ==
    /\ lk_pc = "write"
    /\ conn_lock' = Release(conn_lock, "send")
    /\ stream_lock' = Release(stream_lock, "send")
    /\ lk_pc' = "select"
    /\ UNCHANGED <<recv_fut, lk_chan, lk_arrived, lk_eof, lk_wire, lk_dropped, notlocks>>

\* shutdown ends, well or not, and network_task returns.
LkShutdown ==
    /\ lk_pc = "shutdown"
    /\ conn_lock' = Release(conn_lock, "send")
    /\ stream_lock' = Release(stream_lock, "send")
    /\ lk_pc' = "done"
    /\ UNCHANGED <<recv_fut, lk_chan, lk_arrived, lk_eof, lk_wire, lk_dropped, notlocks>>

NextLocks ==
    \/ LkArrive
    \/ LkEof
    \/ LkSelect
    \/ LkRecvLockConn
    \/ LkRecvLockStream
    \/ LkRecvFrame
    \/ LkRecvErr
    \/ LkInputWins
    \/ LkLockConn
    \/ LkLockStream
    \/ LkWrite
    \/ LkShutdown

\* The executor polls the task whenever a lock it waits for is free, and a
\* write on the socket ends.
SpecLocks ==
    /\ InitLocks
    /\ [][NextLocks]_vars
    /\ WF_vars(LkLockConn)
    /\ WF_vars(LkLockStream)
    /\ WF_vars(LkWrite)

\* ------------------------------------------------------------ start_client
notclient == <<flagvars, addresses, argvars, sessvars, inputvars, netvars, errlog,
               servervars, lockvars>>

\* TcpStream::connect: Err returns through ?, Ok spawns the three threads.
ClConnect(ok) ==
    /\ cl_pc = "connect"
    /\ cl_pc' = IF ok THEN "join" ELSE "failed"
    /\ rcv_pc' = IF ok THEN "lock" ELSE rcv_pc
    /\ inp_pc' = IF ok THEN "check" ELSE inp_pc
    /\ snd_pc' = IF ok THEN "lock" ELSE snd_pc
    /\ UNCHANGED <<cl_lock, cl_queue, cl_typed, cl_unread, cl_srv_sent, cl_srv_closed,
                   is_server_closed, notclient>>

\* The server writes a byte.
ClServerSend ==
    /\ cl_pc = "join"
    /\ ~cl_srv_closed
    /\ cl_srv_sent < PeerBytes
    /\ cl_srv_sent' = cl_srv_sent + 1
    /\ cl_unread' = cl_unread + 1
    /\ UNCHANGED <<cl_pc, rcv_pc, inp_pc, snd_pc, cl_lock, cl_queue, cl_typed,
                   cl_srv_closed, is_server_closed, notclient>>

\* The server closes the connection.
ClServerClose ==
    /\ cl_pc = "join"
    /\ ~cl_srv_closed
    /\ cl_srv_closed' = TRUE
    /\ UNCHANGED <<cl_pc, rcv_pc, inp_pc, snd_pc, cl_lock, cl_queue, cl_typed, cl_unread,
                   cl_srv_sent, is_server_closed, notclient>>

\* Receive thread: receive_stream.lock() at the top of each iteration.
ClRcvLock ==
    /\ rcv_pc = "lock"
    /\ cl_lock = "free"
    /\ cl_lock' = "recv"
    /\ rcv_pc' = "read"
    /\ UNCHANGED <<cl_pc, inp_pc, snd_pc, cl_queue, cl_typed, cl_unread, cl_srv_sent,
                   cl_srv_closed, is_server_closed, notclient>>

\* Receive thread: read returns Ok(n), n > 0; the data is printed and the
\* guard is dropped at the end of the iteration.
ClRcvRead ==
    /\ rcv_pc = "read"
    /\ cl_unread > 0
    /\ cl_unread' = 0
    /\ cl_lock' = "free"
    /\ rcv_pc' = "lock"
    /\ UNCHANGED <<cl_pc, inp_pc, snd_pc, cl_queue, cl_typed, cl_srv_sent, cl_srv_closed,
                   is_server_closed, notclient>>

\* Receive thread: read returns Ok(0) (the flag is stored) or Err; break.
ClRcvEnd(clean) ==
    /\ rcv_pc = "read"
    /\ cl_unread = 0
    /\ cl_srv_closed
    /\ is_server_closed' = (clean \/ is_server_closed)
    /\ cl_lock' = "free"
    /\ rcv_pc' = "done"
    /\ UNCHANGED <<cl_pc, inp_pc, snd_pc, cl_queue, cl_typed, cl_unread, cl_srv_sent,
                   cl_srv_closed, notclient>>

\* Input thread: the test of is_server_closed at the top of its loop.
ClInputCheck ==
    /\ inp_pc = "check"
    /\ inp_pc' = IF is_server_closed THEN "done" ELSE "read_line"
    /\ UNCHANGED <<cl_pc, rcv_pc, snd_pc, cl_lock, cl_queue, cl_typed, cl_unread,
                   cl_srv_sent, cl_srv_closed, is_server_closed, notclient>>

\* Input thread: read_line, then tx_input.send.
ClReadLine ==
    /\ inp_pc = "read_line"
    /\ cl_typed < MaxReads
    /\ cl_typed' = cl_typed + 1
    /\ cl_queue' = cl_queue + 1
    /\ inp_pc' = "check"
    /\ UNCHANGED <<cl_pc, rcv_pc, snd_pc, cl_lock, cl_unread, cl_srv_sent, cl_srv_closed,
                   is_server_closed, notclient>>

\* Send thread: send_stream.lock(), once, before its loop.
ClSndLock ==
    /\ snd_pc = "lock"
    /\ cl_lock = "free"
    /\ cl_lock' = "send"
    /\ snd_pc' = "recv"
    /\ UNCHANGED <<cl_pc, rcv_pc, inp_pc, cl_queue, cl_typed, cl_unread, cl_srv_sent,
                   cl_srv_closed, is_server_closed, notclient>>

\* Send thread: rx.recv() returns a line, write_all; an Err (the server is
\* gone) breaks the loop and the guard is dropped with the closure.
ClSndWrite(ok) ==
    /\ snd_pc = "recv"
    /\ cl_queue > 0
    /\ ok \/ cl_srv_closed
    /\ cl_queue' = cl_queue - 1
    /\ snd_pc' = IF ok THEN "recv" ELSE "done"
    /\ cl_lock' = IF ok THEN cl_lock ELSE "free"
    /\ UNCHANGED <<cl_pc, rcv_pc, inp_pc, cl_typed, cl_unread, cl_srv_sent, cl_srv_closed,
                   is_server_closed, notclient>>

\* The three joins, then Ok(()).
ClJoin ==
    /\ cl_pc = "join"
    /\ rcv_pc = "done"
    /\ inp_pc = "done"
    /\ snd_pc = "done"
    /\ cl_pc' = "returned"
    /\ UNCHANGED <<rcv_pc, inp_pc, snd_pc, cl_lock, cl_queue, cl_typed, cl_unread,
                   cl_srv_sent, cl_srv_closed, is_server_closed, notclient>>

InitClient ==
    /\ listen = FALSE
    /\ ignore_eof = FALSE
    /\ ignore_dns = FALSE
    /\ input_buffer_size = MaxBuf
    /\ output_buffer_size = InputVecLen
    /\ stdin_avail = 1
    /\ logging = FALSE
    /\ peer_silent = FALSE
    /\ host = "10.0.0.1"
    /\ ArgsDone(1)
    /\ spc = "done"
    /\ idx = 1
    /\ network_handle = 0
    /\ result = "none"
    /\ attempts = <<>>
    /\ ipc = "ok"
    /\ stdin_log = <<>>
    /\ chan = <<>>
    /\ tstate = [i \in Tasks |-> "none"]
    /\ terr = [i \in Tasks |-> "none"]
    /\ conn = [i \in Tasks |-> "none"]
    /\ wire = [i \in Tasks |-> <<>>]
    /\ total_data = [i \in Tasks |-> <<>>]
    /\ bytes_read = [i \in Tasks |-> -1]
    /\ discarded = [i \in Tasks |-> 0]
    /\ printed = [i \in Tasks |-> <<>>]
    /\ last_send = [i \in Tasks |-> "none"]
    /\ errlog = {}
    /\ ServerIdle
    /\ LocksIdle
    /\ cl_pc = "connect"
    /\ rcv_pc = "none"
    /\ inp_pc = "none"
    /\ snd_pc = "none"
    /\ cl_lock = "free"
    /\ cl_queue = 0
    /\ cl_typed = 0
    /\ cl_unread = 0
    /\ cl_srv_sent = 0
    /\ cl_srv_closed = FALSE
    /\ is_server_closed = FALSE

NextClient ==
    \/ \E ok \in BOOLEAN : ClConnect(ok)
    \/ ClServerSend
    \/ ClServerClose
    \/ ClRcvLock
    \/ ClRcvRead
    \/ \E clean \in BOOLEAN : ClRcvEnd(clean)
    \/ ClInputCheck
    \/ ClReadLine
    \/ ClSndLock
    \/ \E ok \in BOOLEAN : ClSndWrite(ok)
    \/ ClJoin

\* Every thread that can take a step takes one, and a thread waiting for the
\* Mutex gets it if it is free again and again.
SpecClient ==
    /\ InitClient
    /\ [][NextClient]_vars
    /\ WF_vars(\E ok \in BOOLEAN : ClConnect(ok))
    /\ SF_vars(ClRcvLock)
    /\ WF_vars(ClRcvRead)
    /\ WF_vars(\E clean \in BOOLEAN : ClRcvEnd(clean))
    /\ WF_vars(ClInputCheck)
    /\ SF_vars(ClSndLock)
    /\ WF_vars(\E ok \in BOOLEAN : ClSndWrite(ok))
    /\ WF_vars(ClJoin)

\* ============================================================ properties
Ended(i) == tstate[i] \in {"ok", "err"}
Spawned == {i \in Tasks : tstate[i] # "none"}
ZeroReads == Cardinality({k \in DOMAIN stdin_log : stdin_log[k] = 0})
NoAttemptSucceeded == \A k \in DOMAIN attempts : ~attempts[k].ok

\* C1: in connect mode the candidates are attempted strictly in list order,
\* each at most once, candidate i+1 only after the attempt on candidate i
\* failed or its network_task ended; when of three candidates the first two
\* refuse and the third accepts, all three are attempted in order and exactly
\* one network_task is spawned, bound to the third.
C1_CandidatesInOrder ==
    ~listen =>
        /\ Len(attempts) <= Len(addresses)
        /\ \A k \in DOMAIN attempts :
              /\ attempts[k].index = k
              /\ attempts[k].addr.port = addresses[k].port
        /\ \A k \in 1..(Len(attempts) - 1) : attempts[k].ok => Ended(k)
        /\ \A i \in Spawned : i \in DOMAIN attempts /\ attempts[i].ok
        /\ (/\ Len(attempts) = 3
            /\ ~attempts[1].ok
            /\ ~attempts[2].ok
            /\ attempts[3].ok) => Spawned = {3}

C1_Witness ==
    /\ ~listen
    /\ Len(attempts) = 3
    /\ ~attempts[1].ok
    /\ ~attempts[2].ok
    /\ attempts[3].ok
    /\ tstate[3] = "run"

\* C2: at most one Connection is open and at most one network_task is alive
\* in every reachable state.
C2_OneConnection ==
    /\ Cardinality({i \in Tasks : conn[i] = "open"}) <= 1
    /\ Cardinality({i \in Tasks : tstate[i] = "run"}) <= 1

C2_Witness ==
    \E i, j \in Tasks : i < j /\ Ended(i) /\ tstate[j] = "run" /\ conn[j] = "open"

\* C3: once input_task has ended on end-of-input (ignore_eof disabled) and a
\* network_task has closed its connection for it, no further candidate is
\* attempted and the session ends with success.
C3_EofEndsSession ==
    /\ [](\A i \in Tasks :
            (ipc = "ok" /\ tstate[i] = "ok" /\ spc = "done") => result = "Ok")
    /\ [][(\E i \in Tasks : ipc = "ok" /\ tstate[i] = "ok")
            => attempts' = attempts]_vars

\* C4: when no connect/accept attempt succeeded (or the candidate list is
\* empty), start_session ends with a failure, never with success.
C4_ExhaustionFails ==
    (spc = "done" /\ NoAttemptSucceeded) => result = "Err"

\* C5: a failed send_data makes the session leave that connection: the
\* network_task is not left running on a connection whose send failed.
C5_SendFailureLeaves ==
    \A i \in Tasks : ~(tstate[i] = "run" /\ last_send[i] = "err")

\* C6: when receive_data fails (peer closed or I/O error) the network_task
\* ends with that error, and in connect mode start_session neither returns
\* nor skips: its next attempt is the next candidate in order.
ReceiveFailed(i) == terr[i] \in {"ClientDisconnected", "IoError(read)"}

C6_ReceiveFailureNextCandidate ==
    /\ [](\A i \in Tasks : ReceiveFailed(i) =>
            /\ tstate[i] = "err"
            /\ conn[i] # "open"
            /\ (~listen /\ i < Len(addresses)) =>
                  /\ spc = "loop"
                  /\ network_handle = i
                  /\ idx = i + 1
                  /\ result = "none")
    /\ [][\A i \in Tasks :
            (~listen /\ i < Len(addresses) /\ ReceiveFailed(i) /\ ~ReceiveFailed(i)')
                => (spc' = "connect" /\ idx' = i + 1 /\ result' = "none")]_vars
    /\ [][\A i \in Tasks :
            (~listen /\ spc = "connect" /\ idx = i + 1 /\ tstate[i] = "err"
             /\ attempts' # attempts)
                => (Len(attempts') = i + 1 /\ attempts'[i + 1].index = i + 1)]_vars

C6_Witness ==
    /\ ~listen
    /\ Len(attempts) >= 2
    /\ attempts[1].ok
    /\ tstate[1] = "err"
    /\ attempts[2].index = 2

\* C7: in listen mode the session never binds and accepts on another address
\* after the first listen candidate has failed or ended.
C7_ListenSingleCandidate ==
    listen => Len(attempts) <= 1

\* C8: with ignore_eof a zero-length stdin read neither ends input_task nor
\* closes the channel; without it the first zero-length read ends input_task
\* and closes the channel, once, and no chunk is enqueued for that read.
ZeroReadStep == stdin_log' # stdin_log /\ stdin_log'[Len(stdin_log')] = 0

C8_EofPolicy ==
    /\ [](ignore_eof => ipc # "ok")
    /\ [](~ignore_eof => /\ ZeroReads <= 1
                         /\ (ZeroReads = 1) <=> (ipc = "ok")
                         /\ (ZeroReads = 1) => stdin_log[Len(stdin_log)] = 0)
    /\ [][ZeroReadStep =>
            /\ chan' = chan
            /\ ignore_eof => (ipc' = "run" /\ ~ChannelClosed')
            /\ ~ignore_eof => (ipc' = "ok" /\ ChannelClosed')]_vars
    /\ [][ChannelClosed => ChannelClosed']_vars

C8_Witness ==
    /\ ignore_eof
    /\ Len(stdin_log) = 2
    /\ stdin_log[1] = 0
    /\ stdin_log[2] # 0
    /\ ipc = "run"

\* C9: every receive_data success is exactly one frame: the bytes up to and
\* including the first delimiter and nothing after it, so that b"hello\n"
\* b"world\n" from the peer come back as those two frames however the
\* transport splits or coalesces the stream.
OneFrame(f) == Position(f) = Len(f) /\ Len(f) > 0

C9_OneFramePerReceive ==
    \A i \in Tasks : \A k \in DOMAIN printed[i] : OneFrame(printed[i][k])

\* C10: receive_data never returns an empty success; a zero-length read
\* yields ClientDisconnected whether or not bytes were accumulated, and the
\* accumulated partial data is discarded, not returned.
ZeroLengthRead(i) == tstate[i] = "run" /\ bytes_read[i] # 0 /\ bytes_read'[i] = 0

C10_PeerClosedIsError ==
    /\ [](\A i \in Tasks : \A k \in DOMAIN printed[i] : printed[i][k] # <<>>)
    /\ [](\A i \in Tasks : bytes_read[i] = 0 =>
            (tstate[i] = "err" /\ terr[i] = "ClientDisconnected"))
    /\ [][\A i \in Tasks : ZeroLengthRead(i) =>
            /\ tstate'[i] = "err"
            /\ terr'[i] = "ClientDisconnected"
            /\ discarded'[i] = Len(total_data[i])
            /\ total_data'[i] = <<>>
            /\ Len(printed'[i]) <= Len(printed[i])]_vars

C10_Witness ==
    \E i \in Tasks :
        /\ bytes_read[i] = 0
        /\ discarded[i] > 0
        /\ terr[i] = "ClientDisconnected"

BothPending(i) ==
    /\ Running
    /\ tstate[i] = "run"
    /\ chan # <<>>
    /\ wire[i] # <<>>
    /\ input_buffer_size > 0

NoPreferredBranch ==
    \A i \in Tasks : BothPending(i) =>
        /\ ENABLED NetInput(i, TRUE)
        /\ ENABLED NetRead(i, 1)
        /\ ENABLED NetReadErr(i)

ReceiveServiced(i) ==
    bytes_read[i] >= 0 \/ tstate[i] # "run" \/ ~Running

C17_LiteralNeverLooksUp ==
    \A k \in DOMAIN attempts :
        /\ ~attempts[k].lookup
        /\ attempts[k].addr = addresses[k]

\* C18: once receive_data holds bytes of a frame without its delimiter, no
\* send_data starts on that connection before that receive_data call returned.
C18_NoSendInsidePartialFrame ==
    [][\A i \in Tasks :
          (tstate[i] = "run" /\ total_data[i] # <<>>)
              => ~(Len(chan') < Len(chan))]_vars

NoConnection == \A i \in Tasks : tstate[i] # "run"

IsPrefix(s, t) == Len(s) <= Len(t) /\ SubSeq(t, 1, Len(s)) = s

InputCanEnqueue ==
    (Running /\ ipc = "run" /\ Len(stdin_log) < MaxReads) => ENABLED InputRead(1)

QueuedInReadOrder ==
    \A j, k \in DOMAIN chan : j < k => chan[j].data < chan[k].data

\* C19: input_task reads stdin and enqueues a chunk in every session state,
\* the enqueue never waits for the consumer, and chunks queued while no
\* connection exists are kept and handed out first-in first-out.
C19_InputIndependent ==
    /\ [](InputCanEnqueue /\ QueuedInReadOrder)
    /\ [][/\ NoConnection => IsPrefix(chan, chan')
          /\ Len(chan') < Len(chan) => (chan' = Tail(chan) /\ ~NoConnection)
          /\ Len(chan') > Len(chan) => SubSeq(chan', 1, Len(chan)) = chan]_vars

C19_Witness ==
    /\ Len(chan) = 1
    /\ chan[1].data = 2
    /\ Len(attempts) = 2
    /\ attempts[2].ok
    /\ ~attempts[1].ok
    /\ last_send[2] = "ok"

\* ------------------------------------------------------------ port texts, as meant
TokenValid(t) ==
    \/ t.kind = "single" /\ t.a <= U16Max
    \/ t.kind = "range" /\ t.a <= t.b /\ t.b <= U16Max

Expansion(t) ==
    IF ~TokenValid(t) THEN <<>>
    ELSE IF t.kind = "single" THEN <<t.a>>
    ELSE [k \in 1..(t.b - t.a + 1) |-> t.a + k - 1]

RECURSIVE ExpandAll(_)
ExpandAll(ts) ==
    IF ts = <<>> THEN <<>> ELSE Expansion(ts[1]) \o ExpandAll(Tail(ts))

\* The tokens the loop of parse_port_ranges has been through.
TokensSeen == SubSeq(port_tokens, 1, tok_i - 1)

PortsReturned == apc # "ports"

AllValid == \A k \in DOMAIN port_tokens : TokenValid(port_tokens[k])

\* C12: parse_port_ranges returns the expansions of the valid tokens of the
\* port text, concatenated in the order written: a single port is itself, a
\* range start-end with start <= end is start, ..., end (also when end is
\* 65535), and duplicates stay.
C12_ValidTokensExpand ==
    /\ AllValid => ports = ExpandAll(TokensSeen)
    /\ (PortsReturned /\ port_str = <<"8", "0">>) => ports = <<80>>
    /\ (PortsReturned /\ port_str = <<"8", "0", "-", "8", "2">>)
           => ports = <<80, 81, 82>>
    /\ (PortsReturned /\ port_str = <<"8", "0", ",", "4", "4", "3">>)
           => ports = <<80, 443>>
    /\ (PortsReturned /\ port_tokens = <<Range(U16Max - 1, U16Max)>>)
           => ports = <<U16Max - 1, U16Max>>

C12_Witness ==
    /\ apc = "done"
    /\ port_str = <<"8", "0", "-", "8", "2", ",", "8", "0">>
    /\ ports = <<80, 81, 82, 80>>

\* C13: a malformed token (not a number, a reversed range, a value above
\* 65535, a range without exactly two parts, an empty token) adds no port and
\* does not stop the expansion of the tokens after it.
C13_MalformedTokensSkipped ==
    /\ ~AllValid => ports = ExpandAll(TokensSeen)
    /\ (~AllValid /\ PortsReturned) => tok_i = Len(port_tokens) + 1
    /\ (PortsReturned /\ port_str = <<"9", "0", "-", "8", "0">>) => ports = <<>>
    /\ (PortsReturned /\ port_str = <<"a", "b", "c", ",", "4", "4", "3">>)
           => ports = <<443>>
    /\ (PortsReturned /\ port_str = <<>>) => ports = <<>>
    /\ (PortsReturned /\ \A k \in DOMAIN port_tokens : ~TokenValid(port_tokens[k]))
           => ports = <<>>

C13_Witness ==
    /\ apc = "done"
    /\ port_str = <<"a", "b", "c", ",", "4", "4", "3">>
    /\ ports = <<443>>
    /\ addresses # <<>>

\* C14: parse_addresses never returns an empty candidate list as a success:
\* a port text that expands to no port is reported as a failure.
C14_NoEmptySuccess ==
    args_result = "Ok" => addresses # <<>>

FamilyMismatch ==
    LET family == ParseSocketAddr(host, 80) IN
    \/ family = "Err"
    \/ addr_type = "IPv4" /\ family # "V4"
    \/ addr_type = "IPv6" /\ family # "V6"

\* C15: a host that does not fit the family restriction, or that is not an
\* address literal, never aborts parse_addresses.
C15_MismatchNeverAborts ==
    FamilyMismatch => apc # "panic"

\* The IPs a host stands for: a name resolves to A and B, a literal is itself.
ResolvesTo(h) == IF h = "example.com" THEN <<"A", "B">> ELSE <<HostIp(h)>>

\* Every IP with every port: all ports of the first IP, then of the next.
Pairing(ips, ps) ==
    [k \in 1..(Len(ips) * Len(ps)) |->
        [ip |-> ips[((k - 1) \div Len(ps)) + 1], port |-> ps[((k - 1) % Len(ps)) + 1]]]

\* C16: the candidates are every IP the host resolves to paired with every
\* port, IP by IP: [A, B] and [80, 81] give (A,80), (A,81), (B,80), (B,81).
C16_EveryIpEveryPort ==
    (apc \in {"done", "panic"} /\ addr_type = "IP" /\ host \in {"127.0.0.1", "example.com"})
        => (args_result = "Ok" /\ addresses = Pairing(ResolvesTo(host), ports))

\* C20: every chunk input_task enqueues is the bytes of one stdin read, no
\* more and no fewer, is not empty and is no longer than the configured
\* output_buffer_size.
C20_ChunkFitsOutputBuffer ==
    \A k \in DOMAIN chan :
        /\ chan[k].len = stdin_log[chan[k].data]
        /\ chan[k].len >= 1
        /\ chan[k].len <= output_buffer_size

RECURSIVE Flatten(_)
Flatten(frames) ==
    IF frames = <<>> THEN <<>> ELSE frames[1] \o Flatten(Tail(frames))

\* C24: no byte received from the peer is lost by network_task: what was read
\* from the socket is printed or still held for printing, in order, whatever
\* input is serviced in between.
C24_NoByteLost ==
    \A i \in Tasks :
        tstate[i] = "run"
            => Flatten(printed[i]) \o total_data[i] \o wire[i] = PeerStream

RunningTasks == {i \in Tasks : tstate[i] = "run"}

ClosedForEof(i) ==
    /\ tstate[i] = "run"
    /\ tstate'[i] = "ok" \/ terr'[i] = "IoError(shutdown)"

\* C25: the chunks enqueued before end-of-input leave the channel in the
\* order they were read, each taken once by the one running network_task,
\* and a connection is closed for end-of-input only when no chunk is left.
C25_DrainedBeforeClose ==
    /\ [](\A k \in DOMAIN chan :
             /\ chan[k].data \in DOMAIN stdin_log
             /\ stdin_log[chan[k].data] # 0
             /\ \A j \in 1..(k - 1) : chan[j].data < chan[k].data)
    /\ [][/\ Len(chan') < Len(chan)
              => /\ chan' = Tail(chan)
                 /\ Cardinality(RunningTasks) = 1
                 /\ \A k \in DOMAIN chan' : chan'[k].data > chan[1].data
          /\ \A i \in Tasks : ClosedForEof(i) => (chan = <<>> /\ ipc # "run")]_vars

C25_Witness ==
    \E i \in Tasks :
        /\ tstate[i] = "ok"
        /\ Len(stdin_log) = 2
        /\ stdin_log[1] # 0
        /\ stdin_log[2] = 0
        /\ chan = <<>>
        /\ conn[i] = "dropped"

LastTaskFailed ==
    /\ addresses # <<>>
    /\ Len(attempts) = Len(addresses)
    /\ attempts[Len(addresses)].ok
    /\ tstate[Len(addresses)] = "err"

\* C26: start_session returns an error exactly when the last address of the
\* list was connected and its network_task ended with an error; a connect
\* failure or the error of an earlier task never changes the result.
C26_ErrorIffLastTaskFailed ==
    spc = "done" => (result = "Err" <=> LastTaskFailed)

C26_Witness ==
    /\ spc = "done"
    /\ result = "Ok"
    /\ Len(addresses) = 2
    /\ tstate[1] = "err"
    /\ ~attempts[2].ok

NewFailedAttempt ==
    /\ Len(attempts') = Len(attempts) + 1
    /\ ~attempts'[Len(attempts')].ok

\* C21: no error outcome of the session engine disappears: a failed
\* from_config, send_data, receive_data or close and a failure of input_task
\* are each logged, or returned to the caller of start_session.
C21_NoErrorSwallowed ==
    /\ [][/\ NewFailedAttempt => "Failed to initialize connection" \in errlog'
          /\ \A i \in Tasks :
                (last_send'[i] = "err" /\ Len(chan') < Len(chan))
                    => "Error sending data" \in errlog'
          /\ \A i \in Tasks :
                (tstate[i] = "run" /\ tstate'[i] = "err"
                                   /\ terr'[i] # "IoError(shutdown)")
                    => "Error receiving data" \in errlog']_vars
    /\ [](spc = "done" =>
            /\ \A i \in Tasks :
                  tstate[i] = "err"
                      => ("Connection failed with error" \in errlog \/ result = "Err")
            /\ ipc = "err" => "input_task failed" \in errlog)

\* C22: every from_config call completes, with success or an error, also
\* when the remote side never answers: the loop of start_session never
\* stays on one candidate for ever.
C22_AttemptCompletes ==
    [](spc = "connect" => <>(spc # "connect"))

OpenStreams == {c \in Conns : srv_stream[c] = "open"}

C27_SendGetsBothLocks ==
    /\ [](lk_pc \in {"send_conn", "close_conn"}
            => (conn_lock = "free" /\ stream_lock = "free"))
    /\ []((lk_pc = "select" /\ recv_fut \in {"none", "new"})
            => (conn_lock = "free" /\ stream_lock = "free"))
    /\ [](lk_pc = "send_conn"
            => <>(lk_pc = "write" /\ conn_lock = "send" /\ stream_lock = "send"))

C27_Witness ==
    /\ lk_pc = "write"
    /\ lk_dropped = "reading"
    /\ conn_lock = "send"
    /\ stream_lock = "send"

\* C28: in start_client the receive thread keeps making progress under every
\* thread schedule: bytes the server has sent are eventually read and
\* printed, and a close of the server is eventually seen by the receive
\* thread, also after the send thread has started.
C28_ReceiveProgresses ==
    /\ [](cl_unread > 0 => <>(cl_unread = 0))
    /\ [](cl_srv_closed => <>(rcv_pc = "done"))

====
